---------------------------- MODULE Spec2Model ----------------------------
(***************************************************************************)
(* GearMath (src/gear_math.js): six pure functions over JavaScript Numbers. *)
(*                                                                         *)
(* A JavaScript Number is an IEEE-754 binary float.  The model keeps the   *)
(* float semantics (round to nearest, ties to even; gradual underflow;     *)
(* overflow to +-Infinity; NaN) at a reduced width: MantBits significant   *)
(* bits instead of 53.  A finite Number is held as an integer count n of   *)
(* the smallest representable step 2^-FracBits, so its value is            *)
(* n / 2^FracBits.  The sign of zero is not represented (-0 === 0 in the   *)
(* program, and no divisor of the program is computed).                    *)
(***************************************************************************)
EXTENDS Integers, FiniteSets, Sequences, TLC

(***************************************************************************)
(* Width of the reduced float format, and sizes of the input sets.         *)
(***************************************************************************)
MantBits == 5
FracBits == 5
ExpRange == 7
MaxTeeth == 4
MaxTurns == 2

VARIABLES pc, fn, args, ret, gearMath, frames, locals

vars == <<pc, fn, args, ret, gearMath, frames, locals>>

---------------------------------------------------------------------------
(***************************************************************************)
(* Numbers                                                                 *)
(***************************************************************************)
Pow2(k) == 2 ^ k

Unit == Pow2(FracBits)

MaxFinite == (Pow2(MantBits) - 1) * Pow2(ExpRange)

Num(n) == [kind |-> "num", n |-> n]
PosInf == [kind |-> "inf", n |-> 1]
NegInf == [kind |-> "inf", n |-> -1]
NaN    == [kind |-> "nan", n |-> 0]
Thrown == [kind |-> "error", n |-> 0]

IsNum(a)     == a.kind = "num"
IsInf(a)     == a.kind = "inf"
IsNaN(a)     == a.kind = "nan"
IsThrown(a)  == a.kind = "error"
IsSpecial(a) == IsInf(a) \/ IsNaN(a)

Abs(n) == IF n < 0 THEN -n ELSE n
Sgn(n) == IF n < 0 THEN -1 ELSE 1

RECURSIVE BitLen(_)
BitLen(n) == IF n = 0 THEN 0 ELSE 1 + BitLen(n \div 2)

(* n (a count of steps) is a value of the format: at most MantBits         *)
(* significant bits, at most ExpRange binades above the smallest.          *)
Grid(n) ==
    LET k == BitLen(Abs(n)) - MantBits
    IN  \/ k <= 0
        \/ k <= ExpRange /\ Abs(n) % Pow2(k) = 0

(* The value nearest to num/den steps (num >= 0, den > 0): round to        *)
(* nearest, ties to even; past the largest finite value, Infinity.         *)
RoundRat(num, den) ==
    LET q  == num \div den
        k  == IF BitLen(q) > MantBits THEN BitLen(q) - MantBits ELSE 0
        d2 == den * Pow2(k)
        m0 == num \div d2
        r  == num % d2
        up == 2 * r > d2 \/ (2 * r = d2 /\ m0 % 2 = 1)
        m  == IF up THEN m0 + 1 ELSE m0
        n  == m * Pow2(k)
    IN  IF n > MaxFinite THEN PosInf ELSE Num(n)

fneg(a) ==
    CASE IsNum(a) -> Num(-a.n)
      [] IsInf(a) -> [kind |-> "inf", n |-> -a.n]
      [] OTHER    -> a

Signed(s, a) == IF s < 0 THEN fneg(a) ELSE a

(* a + b *)
fadd(a, b) ==
    CASE IsThrown(a) \/ IsThrown(b) -> Thrown
      [] IsNaN(a) \/ IsNaN(b)       -> NaN
      [] IsInf(a) /\ IsInf(b)       -> IF a.n = b.n THEN a ELSE NaN
      [] IsInf(a)                   -> a
      [] IsInf(b)                   -> b
      [] OTHER -> Signed(Sgn(a.n + b.n), RoundRat(Abs(a.n + b.n), 1))

(* a - b *)
fsub(a, b) == fadd(a, fneg(b))

(* a * b *)
fmul(a, b) ==
    CASE IsThrown(a) \/ IsThrown(b) -> Thrown
      [] IsNaN(a) \/ IsNaN(b)       -> NaN
      [] IsInf(a) /\ IsInf(b)       -> [kind |-> "inf", n |-> a.n * b.n]
      [] IsInf(a) -> IF b.n = 0 THEN NaN ELSE [kind |-> "inf", n |-> a.n * Sgn(b.n)]
      [] IsInf(b) -> IF a.n = 0 THEN NaN ELSE [kind |-> "inf", n |-> b.n * Sgn(a.n)]
      [] OTHER -> Signed(Sgn(a.n) * Sgn(b.n), RoundRat(Abs(a.n) * Abs(b.n), Unit))

(* fdiv with a zero divisor raising an error (as integer division does     *)
(* elsewhere) instead of returning a special value                         *)
fdivRaising(a, b) ==
    CASE IsThrown(a) \/ IsThrown(b) -> Thrown
      [] IsNaN(a) \/ IsNaN(b)       -> NaN
      [] IsInf(a) /\ IsInf(b)       -> NaN
      [] IsInf(a)                   -> [kind |-> "inf", n |-> a.n * Sgn(b.n)]
      [] IsInf(b)                   -> Num(0)
      [] b.n = 0                    -> Thrown
      [] OTHER -> Signed(Sgn(a.n) * Sgn(b.n), RoundRat(Abs(a.n) * Unit, Abs(b.n)))

(* a / b: a zero divisor gives +-Infinity, or NaN for 0/0; nothing is raised *)
fdiv(a, b) ==
    CASE IsThrown(a) \/ IsThrown(b) -> Thrown
      [] IsNaN(a) \/ IsNaN(b)       -> NaN
      [] IsInf(a) /\ IsInf(b)       -> NaN
      [] IsInf(a)                   -> [kind |-> "inf", n |-> a.n * Sgn(b.n)]
      [] IsInf(b)                   -> Num(0)
      [] b.n = 0 -> IF a.n = 0 THEN NaN ELSE [kind |-> "inf", n |-> Sgn(a.n)]
      [] OTHER -> Signed(Sgn(a.n) * Sgn(b.n), RoundRat(Abs(a.n) * Unit, Abs(b.n)))

(* a % b: the remainder takes the sign of the dividend and is exact *)
fmod(a, b) ==
    CASE IsThrown(a) \/ IsThrown(b) -> Thrown
      [] IsNaN(a) \/ IsNaN(b)       -> NaN
      [] IsInf(a)                   -> NaN
      [] IsInf(b)                   -> a
      [] b.n = 0                    -> NaN
      [] OTHER -> Num(Sgn(a.n) * (Abs(a.n) % Abs(b.n)))

(* a < b: false when either side is NaN *)
flt(a, b) ==
    CASE IsNum(a) /\ IsNum(b) -> a.n < b.n
      [] IsInf(a) /\ IsNum(b) -> a.n < 0
      [] IsNum(a) /\ IsInf(b) -> b.n > 0
      [] IsInf(a) /\ IsInf(b) -> a.n < b.n
      [] OTHER                -> FALSE

Zero == Num(0)
One  == Num(Unit)
Two  == Num(2 * Unit)

(* Math.PI: the Number nearest to pi (355/113 agrees with pi far beyond    *)
(* the model's precision).                                                 *)
PI == RoundRat(355 * Unit, 113)

(* 2 * Math.PI *)
TwoPi == fmul(Two, PI)

---------------------------------------------------------------------------
(***************************************************************************)
(* The six functions of GearMath                                           *)
(***************************************************************************)
(* normalizeAngle without line 10: the remainder keeps the dividend's sign *)
normalizeAngleNoWrap(angle) == fmod(angle, TwoPi)

normalizeAngle(angle) ==
    LET a1 == fmod(angle, TwoPi)
    IN  IF flt(a1, Zero) THEN fadd(a1, TwoPi) ELSE a1

planetaryRingTeeth(sunTeeth, planetTeeth) ==
    fadd(sunTeeth, fmul(Two, planetTeeth))

(* planetaryRingSpeed with the sun term added instead of subtracted *)
planetaryRingSpeedPlus(sunOmega, carrierOmega, sunTeeth, ringTeeth) ==
    fdiv(fadd(fmul(fadd(sunTeeth, ringTeeth), carrierOmega),
              fmul(sunTeeth, sunOmega)),
         ringTeeth)

(* planetaryRingSpeed dividing by the sun's teeth count *)
planetaryRingSpeedBySun(sunOmega, carrierOmega, sunTeeth, ringTeeth) ==
    fdiv(fsub(fmul(fadd(sunTeeth, ringTeeth), carrierOmega),
              fmul(sunTeeth, sunOmega)),
         sunTeeth)

planetaryRingSpeed(sunOmega, carrierOmega, sunTeeth, ringTeeth) ==
    fdiv(fsub(fmul(fadd(sunTeeth, ringTeeth), carrierOmega),
              fmul(sunTeeth, sunOmega)),
         ringTeeth)

calculateRingPhaseFromPlanet(planetPhase, meshAngle, planetTeeth, ringTeeth) ==
    LET halfToothPlanet == fdiv(PI, planetTeeth)
        ratio  == fdiv(planetTeeth, ringTeeth)
        offset == fadd(fmul(fsub(planetPhase, halfToothPlanet), ratio),
                       fmul(meshAngle, fsub(One, ratio)))
    IN  normalizeAngle(offset)

calculateChildPhase(parentPhase, meshAngle, parentTeeth, childTeeth) ==
    LET ratio     == fdiv(parentTeeth, childTeeth)
        halfTooth == fdiv(PI, childTeeth)
        offset == fsub(fsub(fsub(halfTooth, PI),
                            fmul(meshAngle, fadd(One, ratio))),
                       fmul(parentPhase, ratio))
    IN  normalizeAngle(offset)

(* calculateInternalMeshPhase with the parent phase term subtracted, as in *)
(* an external mesh                                                        *)
calculateInternalMeshPhaseReversed(parentPhase, meshAngle, parentTeeth, childTeeth) ==
    LET ratio     == fdiv(parentTeeth, childTeeth)
        halfTooth == fdiv(PI, childTeeth)
        offset == fsub(fadd(fneg(halfTooth),
                            fmul(meshAngle, fsub(ratio, One))),
                       fmul(parentPhase, ratio))
    IN  normalizeAngle(offset)

calculateInternalMeshPhase(parentPhase, meshAngle, parentTeeth, childTeeth) ==
    LET ratio     == fdiv(parentTeeth, childTeeth)
        halfTooth == fdiv(PI, childTeeth)
        offset == fadd(fadd(fneg(halfTooth),
                            fmul(meshAngle, fsub(ratio, One))),
                       fmul(parentPhase, ratio))
    IN  normalizeAngle(offset)

---------------------------------------------------------------------------
(***************************************************************************)
(* The GearMath object: its property names (src/gear_math.js lines 4-89).  *)
(***************************************************************************)
GearMath ==
    {"normalizeAngle", "planetaryRingTeeth", "planetaryRingSpeed",
     "calculateRingPhaseFromPlanet", "calculateChildPhase",
     "calculateInternalMeshPhase"}

PhaseFns ==
    {"calculateRingPhaseFromPlanet", "calculateChildPhase",
     "calculateInternalMeshPhase"}

(* GearMath[f](...a) *)
Apply(f, a) ==
    CASE f = "normalizeAngle"     -> normalizeAngle(a[1])
      [] f = "planetaryRingTeeth" -> planetaryRingTeeth(a[1], a[2])
      [] f = "planetaryRingSpeed" -> planetaryRingSpeed(a[1], a[2], a[3], a[4])
      [] f = "calculateRingPhaseFromPlanet" ->
             calculateRingPhaseFromPlanet(a[1], a[2], a[3], a[4])
      [] f = "calculateChildPhase" -> calculateChildPhase(a[1], a[2], a[3], a[4])
      [] f = "calculateInternalMeshPhase" ->
             calculateInternalMeshPhase(a[1], a[2], a[3], a[4])

Undefined == [kind |-> "undefined", n |-> 0]

---------------------------------------------------------------------------
(***************************************************************************)
(* Inputs.  No function validates its arguments, so every Number is a      *)
(* possible argument; the sets below are the ones explored.                *)
(***************************************************************************)
(* every finite Number of the format *)
AllFinite == {Num(n) : n \in {i \in -MaxFinite..MaxFinite : Grid(i)}}

(* teeth counts 0..MaxTeeth, and the largest finite Number *)
Teeth == {Num(t * Unit) : t \in 0..MaxTeeth} \cup {Num(MaxFinite)}

(* angular velocities: multiples of three steps, both signs *)
Omegas == {Num(3 * k) : k \in {i \in -8..8 : Grid(3 * i)}}

CarrierOmegas == {w \in Omegas : w.n % 2 = 0}

(* phases and mesh angles: zero, the smallest steps, whole and half turns *)
Phases ==
    {Zero, Num(1), Num(-1), Num(2), One, fneg(One), PI, fneg(PI), TwoPi,
     fdiv(PI, Two), Num(3 * Unit)}

Meshes == {Zero, Num(-1), One, fneg(One), PI, fdiv(PI, Two)}

Inputs(f) ==
    CASE f = "normalizeAngle"     -> {<<x>> : x \in AllFinite}
      [] f = "planetaryRingTeeth" -> Teeth \X Teeth
      [] f = "planetaryRingSpeed" -> Omegas \X CarrierOmegas \X Teeth \X Teeth
      [] OTHER                    -> Phases \X Meshes \X Teeth \X Teeth

---------------------------------------------------------------------------
(***************************************************************************)
(* One call, run to completion (the program's own execution model).        *)
(***************************************************************************)
Init ==
    /\ pc = "call"
    /\ fn \in GearMath
    /\ args \in Inputs(fn)
    /\ ret = Undefined
    /\ gearMath = GearMath
    /\ frames = <<>>
    /\ locals = <<>>

normalizeAngleCall ==
    /\ pc = "call" /\ fn = "normalizeAngle"
    /\ ret' = normalizeAngle(args[1])
    /\ pc' = "done"
    /\ UNCHANGED <<fn, args, gearMath, frames, locals>>

planetaryRingTeethCall ==
    /\ pc = "call" /\ fn = "planetaryRingTeeth"
    /\ ret' = planetaryRingTeeth(args[1], args[2])
    /\ pc' = "done"
    /\ UNCHANGED <<fn, args, gearMath, frames, locals>>

planetaryRingSpeedCall ==
    /\ pc = "call" /\ fn = "planetaryRingSpeed"
    /\ ret' = planetaryRingSpeed(args[1], args[2], args[3], args[4])
    /\ pc' = "done"
    /\ UNCHANGED <<fn, args, gearMath, frames, locals>>

calculateRingPhaseFromPlanetCall ==
    /\ pc = "call" /\ fn = "calculateRingPhaseFromPlanet"
    /\ ret' = calculateRingPhaseFromPlanet(args[1], args[2], args[3], args[4])
    /\ pc' = "done"
    /\ UNCHANGED <<fn, args, gearMath, frames, locals>>

calculateChildPhaseCall ==
    /\ pc = "call" /\ fn = "calculateChildPhase"
    /\ ret' = calculateChildPhase(args[1], args[2], args[3], args[4])
    /\ pc' = "done"
    /\ UNCHANGED <<fn, args, gearMath, frames, locals>>

calculateInternalMeshPhaseCall ==
    /\ pc = "call" /\ fn = "calculateInternalMeshPhase"
    /\ ret' = calculateInternalMeshPhase(args[1], args[2], args[3], args[4])
    /\ pc' = "done"
    /\ UNCHANGED <<fn, args, gearMath, frames, locals>>

Next ==
    \/ normalizeAngleCall
    \/ planetaryRingTeethCall
    \/ planetaryRingSpeedCall
    \/ calculateRingPhaseFromPlanetCall
    \/ calculateChildPhaseCall
    \/ calculateInternalMeshPhaseCall

Spec == Init /\ [][Next]_vars

---------------------------------------------------------------------------
(***************************************************************************)
(* Two calls in flight at once, interleaved statement by statement.        *)
(* frames[c] is call c (function, arguments, position, returned value);    *)
(* locals[FrameOf(c)] holds the parameters and var declarations of its     *)
(* activation.                                                             *)
(***************************************************************************)
Slots == {1, 2}

(* one record shared by every invocation, as if the locals were globals *)
SharedFrame(c) == 1

(* every invocation has an activation record of its own *)
FrameOf(c) == c

EmptyLocals ==
    [angle |-> Undefined, halfTooth |-> Undefined,
     ratio |-> Undefined, offset |-> Undefined]

ConcCalls ==
    {<<"normalizeAngle", <<Num(-3)>>>>,
     <<"normalizeAngle", <<fneg(One)>>>>,
     <<"normalizeAngle", <<fadd(TwoPi, One)>>>>,
     <<"planetaryRingTeeth", <<One, Two>>>>,
     <<"planetaryRingSpeed", <<Num(24), Num(-18), One, Two>>>>,
     <<"calculateRingPhaseFromPlanet", <<One, PI, Two, Num(4 * Unit)>>>>,
     <<"calculateRingPhaseFromPlanet", <<Zero, Zero, Two, Two>>>>,
     <<"calculateChildPhase", <<One, PI, Two, One>>>>,
     <<"calculateChildPhase", <<Num(1), Zero, One, One>>>>,
     <<"calculateInternalMeshPhase", <<PI, fdiv(PI, Two), Two, Num(4 * Unit)>>>>,
     <<"calculateInternalMeshPhase", <<One, One, Num(3 * Unit), Zero>>>>}

ConcInit ==
    /\ pc = "conc"
    /\ fn = "none"
    /\ args = <<>>
    /\ ret = Undefined
    /\ gearMath = GearMath
    /\ frames \in [Slots -> {[fn |-> c[1], args |-> c[2], pc |-> "start",
                              ret |-> Undefined, overlapped |-> FALSE] :
                             c \in ConcCalls}]
    /\ locals = [s \in Slots |-> EmptyLocals]

Local(c) == locals[FrameOf(c)]

(* some other call is between its first statement and its return *)
OthersInFlight(c) ==
    \E d \in Slots \ {c} : frames[d].pc \notin {"start", "done"}

(* call c, at position from in function f, assigns v to its local          *)
(* variable and moves to position to                                       *)
Assign(c, f, from, variable, v, to) ==
    /\ pc = "conc"
    /\ frames[c].fn \in f
    /\ frames[c].pc = from
    /\ locals' = [locals EXCEPT ![FrameOf(c)][variable] = v]
    /\ frames' = [frames EXCEPT ![c].pc = to,
                                ![c].overlapped = @ \/ OthersInFlight(c)]
    /\ UNCHANGED <<pc, fn, args, ret, gearMath>>

(* call c, at position from in function f, returns v *)
ReturnValue(c, f, from, v) ==
    /\ pc = "conc"
    /\ frames[c].fn \in f
    /\ frames[c].pc = from
    /\ frames' = [frames EXCEPT ![c].pc = "done", ![c].ret = v,
                                ![c].overlapped = @ \/ OthersInFlight(c)]
    /\ UNCHANGED <<pc, fn, args, ret, gearMath, locals>>

(* line 8: GearMath.normalizeAngle(angle) binds its parameter *)
NormalizeEnter(c) ==
    /\ c \in Slots
    /\ Assign(c, {"normalizeAngle"}, "start", "angle", frames[c].args[1], "line9")

(* lines 51, 68, 87: return this.normalizeAngle(offset) *)
NormalizeCall(c) ==
    /\ "normalizeAngle" \in gearMath
    /\ Assign(c, PhaseFns, "call", "angle", Local(c).offset, "line9")

(* line 9: angle = angle % (2 * Math.PI) *)
NormalizeRemainder(c) ==
    /\ c \in Slots
    /\ Assign(c, GearMath, "line9", "angle", fmod(Local(c).angle, TwoPi), "line10")

(* line 10: if (angle < 0) angle += 2 * Math.PI *)
NormalizeWrap(c) ==
    /\ c \in Slots
    /\ Assign(c, GearMath, "line10", "angle",
              IF flt(Local(c).angle, Zero)
              THEN fadd(Local(c).angle, TwoPi) ELSE Local(c).angle,
              "line11")

(* line 11: return angle *)
NormalizeReturn(c) ==
    /\ c \in Slots
    /\ ReturnValue(c, GearMath, "line11", Local(c).angle)

(* line 19 *)
RingTeethReturn(c) ==
    /\ c \in Slots
    /\ ReturnValue(c, {"planetaryRingTeeth"}, "start",
                   fadd(frames[c].args[1], fmul(Two, frames[c].args[2])))

(* line 33 *)
RingSpeedReturn(c) ==
    /\ c \in Slots
    /\ ReturnValue(c, {"planetaryRingSpeed"}, "start",
                   fdiv(fsub(fmul(fadd(frames[c].args[3], frames[c].args[4]),
                                  frames[c].args[2]),
                             fmul(frames[c].args[3], frames[c].args[1])),
                        frames[c].args[4]))

(* line 47: var halfToothPlanet = Math.PI / planetTeeth *)
RingPhaseHalfTooth(c) ==
    /\ c \in Slots
    /\ Assign(c, {"calculateRingPhaseFromPlanet"}, "start", "halfTooth",
              fdiv(PI, frames[c].args[3]), "ratio")

(* line 48: var ratio = planetTeeth / ringTeeth *)
RingPhaseRatio(c) ==
    /\ c \in Slots
    /\ Assign(c, {"calculateRingPhaseFromPlanet"}, "ratio", "ratio",
              fdiv(frames[c].args[3], frames[c].args[4]), "offset")

(* line 50 *)
RingPhaseOffset(c) ==
    /\ c \in Slots
    /\ Assign(c, {"calculateRingPhaseFromPlanet"}, "offset", "offset",
              fadd(fmul(fsub(frames[c].args[1], Local(c).halfTooth), Local(c).ratio),
                   fmul(frames[c].args[2], fsub(One, Local(c).ratio))),
              "call")

(* lines 64 and 83: var ratio = parentTeeth / childTeeth *)
MeshRatio(c) ==
    /\ c \in Slots
    /\ Assign(c, {"calculateChildPhase", "calculateInternalMeshPhase"}, "start",
              "ratio", fdiv(frames[c].args[3], frames[c].args[4]), "halfTooth")

(* lines 65 and 84: var halfTooth = Math.PI / childTeeth *)
MeshHalfTooth(c) ==
    /\ c \in Slots
    /\ Assign(c, {"calculateChildPhase", "calculateInternalMeshPhase"}, "halfTooth",
              "halfTooth", fdiv(PI, frames[c].args[4]), "offset")

(* line 67 *)
ChildOffset(c) ==
    /\ c \in Slots
    /\ Assign(c, {"calculateChildPhase"}, "offset", "offset",
              fsub(fsub(fsub(Local(c).halfTooth, PI),
                        fmul(frames[c].args[2], fadd(One, Local(c).ratio))),
                   fmul(frames[c].args[1], Local(c).ratio)),
              "call")

(* line 86 *)
InternalOffset(c) ==
    /\ c \in Slots
    /\ Assign(c, {"calculateInternalMeshPhase"}, "offset", "offset",
              fadd(fadd(fneg(Local(c).halfTooth),
                        fmul(frames[c].args[2], fsub(Local(c).ratio, One))),
                   fmul(frames[c].args[1], Local(c).ratio)),
              "call")

ConcNext ==
    \E c \in Slots :
        \/ NormalizeEnter(c)
        \/ NormalizeCall(c)
        \/ NormalizeRemainder(c)
        \/ NormalizeWrap(c)
        \/ NormalizeReturn(c)
        \/ RingTeethReturn(c)
        \/ RingSpeedReturn(c)
        \/ RingPhaseHalfTooth(c)
        \/ RingPhaseRatio(c)
        \/ RingPhaseOffset(c)
        \/ MeshRatio(c)
        \/ MeshHalfTooth(c)
        \/ ChildOffset(c)
        \/ InternalOffset(c)

SpecConc == ConcInit /\ [][ConcNext]_vars

---------------------------------------------------------------------------
(***************************************************************************)
(* Properties                                                              *)
(***************************************************************************)
Done(f) == pc = "done" /\ fn = f

(* a teeth count among 0..MaxTeeth, not the largest finite Number *)
Ordinary(t) == IsNum(t) /\ t.n <= MaxTeeth * Unit

(* a finite Number lies in [0, 2 * Math.PI) *)
InRange(a) == IsNum(a) /\ 0 <= a.n /\ a.n < TwoPi.n

(* the distance between two adjacent Numbers just below 2 * Math.PI *)
UlpTwoPi == Pow2(BitLen(TwoPi.n) - MantBits)

(* the representative in [0, 2 * Math.PI) of x modulo 2 * Math.PI, exactly *)
Residue(x) == x.n % TwoPi.n

(* C1: for every finite x, normalizeAngle(x) is a finite r with            *)
(* 0 <= r < 2*pi, and normalizeAngle(0) = 0.                               *)
C1_NormalizeAngleInRange ==
    (Done("normalizeAngle") /\ IsNum(args[1])) =>
        /\ InRange(ret)
        /\ (args[1] = Zero => ret = Zero)

-----------------------------------------------------------------------------
Turns == {k \in -MaxTurns..MaxTurns : k # 0}

(* x + 2*pi*k as the program forms it *)
AddTurns(x, k) == fadd(x, fmul(Num(k * Unit), TwoPi))

(* C2 as stated: normalizeAngle(x) is congruent to x modulo 2*pi, and      *)
(* normalizeAngle(x + 2*pi*k) equals normalizeAngle(x) for every integer k. *)
C2_TurnInvariantAsStated ==
    (Done("normalizeAngle") /\ IsNum(args[1])) =>
        /\ IsNum(ret)
        /\ (ret.n - args[1].n) % TwoPi.n = 0
        /\ \A k \in Turns :
              IsNum(AddTurns(args[1], k)) =>
                  normalizeAngle(AddTurns(args[1], k)) = ret

(* C2 amended: normalizeAngle(x) is the residue of x modulo 2*Math.PI      *)
(* rounded to a Number (within half a step of it, and equal to it when the *)
(* residue is a Number, as it is for x >= 0), and two Numbers that differ  *)
(* by an exact whole multiple of 2*Math.PI have the same result.           *)
C2_TurnInvariantUpToRounding ==
    (Done("normalizeAngle") /\ IsNum(args[1])) =>
        /\ IsNum(ret)
        /\ 2 * Abs(ret.n - Residue(args[1])) <= UlpTwoPi
        /\ (Grid(Residue(args[1])) => ret.n = Residue(args[1]))
        /\ (args[1].n >= 0 => ret.n = Residue(args[1]))
        /\ \A k \in Turns :
              LET y == args[1].n + k * TwoPi.n
              IN  (Abs(y) <= MaxFinite /\ Grid(y)) => normalizeAngle(Num(y)) = ret

(* C2 witness: a negative angle whose residue is not a Number was          *)
(* normalized, and an angle a whole turn away from another Number was.     *)
C2_Witness ==
    /\ Done("normalizeAngle")
    /\ \/ (args[1].n < 0 /\ ~Grid(Residue(args[1])) /\ ret.n # Residue(args[1]))
       \/ (args[1].n < -TwoPi.n /\ Grid(args[1].n + TwoPi.n)
           /\ ret.n = Residue(args[1]) /\ ret.n > 0)

-----------------------------------------------------------------------------
(* C10: normalizeAngle is idempotent and the identity on [0, 2*pi); hence  *)
(* normalizing the result of a phase function again changes nothing.       *)
C10_NormalizeAngleIdempotent ==
    /\ (Done("normalizeAngle") /\ IsNum(args[1])) =>
          /\ normalizeAngle(ret) = ret
          /\ (InRange(args[1]) => ret = args[1])
    /\ (pc = "done" /\ fn \in PhaseFns /\ IsNum(ret)) => normalizeAngle(ret) = ret

-----------------------------------------------------------------------------
(* An operation whose result is the exact real result: it neither rounded  *)
(* nor overflowed.                                                         *)
ExactAdd(a, b) ==
    IsNum(a) /\ IsNum(b) /\ IsNum(fadd(a, b)) /\ fadd(a, b).n = a.n + b.n

ExactSub(a, b) == ExactAdd(a, fneg(b))

ExactMul(a, b) ==
    IsNum(a) /\ IsNum(b) /\ IsNum(fmul(a, b)) /\ fmul(a, b).n * Unit = a.n * b.n

ExactDiv(a, b) ==
    /\ IsNum(a) /\ IsNum(b) /\ b.n # 0
    /\ IsNum(fdiv(a, b)) /\ fdiv(a, b).n * b.n = a.n * Unit

(* the numerator of planetaryRingSpeed was computed without rounding *)
NumeratorExact(sunOmega, carrierOmega, sunTeeth, ringTeeth) ==
    /\ ExactAdd(sunTeeth, ringTeeth)
    /\ ExactMul(fadd(sunTeeth, ringTeeth), carrierOmega)
    /\ ExactMul(sunTeeth, sunOmega)
    /\ ExactSub(fmul(fadd(sunTeeth, ringTeeth), carrierOmega),
                fmul(sunTeeth, sunOmega))

Numerator(sunOmega, carrierOmega, sunTeeth, ringTeeth) ==
    fsub(fmul(fadd(sunTeeth, ringTeeth), carrierOmega), fmul(sunTeeth, sunOmega))

(* S*ws + R*w = (S+R)*wc, over the reals *)
Constraint(sunOmega, carrierOmega, sunTeeth, ringTeeth, w) ==
    /\ IsNum(w)
    /\ sunTeeth.n * sunOmega.n + ringTeeth.n * w.n
          = (sunTeeth.n + ringTeeth.n) * carrierOmega.n

(* C4 as stated: for ringTeeth # 0 the result w satisfies                  *)
(* sunTeeth*sunOmega + ringTeeth*w = (sunTeeth+ringTeeth)*carrierOmega;    *)
(* with carrierOmega = 0 it is -(sunTeeth*sunOmega)/ringTeeth, and with    *)
(* both speeds 0 it is 0.  (Stated for teeth counts up to MaxTeeth, where  *)
(* nothing overflows.)                                                     *)
C4_RingSpeedSolvesConstraintAsStated ==
    (/\ Done("planetaryRingSpeed") /\ args[4] # Zero
     /\ Ordinary(args[3]) /\ Ordinary(args[4])) =>
        /\ Constraint(args[1], args[2], args[3], args[4], ret)
        /\ (args[2] = Zero => ret = fdiv(fneg(fmul(args[3], args[1])), args[4]))
        /\ (args[1] = Zero /\ args[2] = Zero => ret = Zero)

(* C4 amended: for ringTeeth # 0 the result satisfies the constraint       *)
(* exactly whenever no operation of the formula rounds or overflows; with  *)
(* carrierOmega = 0 and sunTeeth + ringTeeth finite it is the Number       *)
(* -(sunTeeth*sunOmega)/ringTeeth, and with both speeds 0 it is then 0.    *)
C4_RingSpeedSolvesConstraintWhenExact ==
    (Done("planetaryRingSpeed") /\ args[4] # Zero) =>
        /\ (/\ NumeratorExact(args[1], args[2], args[3], args[4])
            /\ ExactDiv(Numerator(args[1], args[2], args[3], args[4]), args[4]))
              => Constraint(args[1], args[2], args[3], args[4], ret)
        /\ (args[2] = Zero /\ IsNum(fadd(args[3], args[4])))
              => ret = fdiv(fneg(fmul(args[3], args[1])), args[4])
        /\ (args[1] = Zero /\ args[2] = Zero /\ IsNum(fadd(args[3], args[4])))
              => ret = Zero

(* C4 witness: a call with two nonzero speeds and nonzero teeth counts in  *)
(* which nothing rounded returned a nonzero speed.                         *)
C4_Witness ==
    /\ Done("planetaryRingSpeed")
    /\ args[1] # Zero /\ args[2] # Zero /\ args[3] # Zero /\ args[4] # Zero
    /\ NumeratorExact(args[1], args[2], args[3], args[4])
    /\ ExactDiv(Numerator(args[1], args[2], args[3], args[4]), args[4])
    /\ IsNum(ret) /\ ret # Zero /\ ret # args[1] /\ ret # args[2]

-----------------------------------------------------------------------------
(* C9 as stated: for ringTeeth # 0, planetaryRingSpeed(w, w, S, R) = w.    *)
(* (Stated for teeth counts up to MaxTeeth, where nothing overflows.)      *)
C9_LockedTrainAsStated ==
    (/\ Done("planetaryRingSpeed") /\ args[4] # Zero /\ args[1] = args[2]
     /\ Ordinary(args[3]) /\ Ordinary(args[4])) =>
        ret = args[1]

(* C9 amended: for ringTeeth # 0, planetaryRingSpeed(w, w, S, R) = w       *)
(* whenever the sum S+R, the two products and their difference are         *)
(* computed without rounding or overflow.                                  *)
C9_LockedTrainWhenExact ==
    (/\ Done("planetaryRingSpeed") /\ args[4] # Zero /\ args[1] = args[2]
     /\ NumeratorExact(args[1], args[2], args[3], args[4])) =>
        ret = args[1]

(* C9 witness: sun and carrier turn at the same nonzero speed, the         *)
(* numerator is exact, and the ring speed was returned.                    *)
C9_Witness ==
    /\ Done("planetaryRingSpeed")
    /\ args[1] = args[2] /\ args[1] # Zero
    /\ args[3] # Zero /\ args[4] # Zero /\ args[3] # args[4]
    /\ NumeratorExact(args[1], args[2], args[3], args[4])
    /\ ret = args[1]

-----------------------------------------------------------------------------
-----------------------------------------------------------------------------
(* normalizeAngle(x) added 2 * Math.PI, if at all, without rounding *)
NormalizeExact(x) ==
    /\ IsNum(x)
    /\ fmod(x, TwoPi).n < 0 => ExactAdd(fmod(x, TwoPi), TwoPi)

RingPhaseExact(planetPhase, meshAngle, planetTeeth, ringTeeth) ==
    LET half  == fdiv(PI, planetTeeth)
        ratio == fdiv(planetTeeth, ringTeeth)
        t1 == fsub(planetPhase, half)
        t2 == fmul(t1, ratio)
        t3 == fsub(One, ratio)
        t4 == fmul(meshAngle, t3)
    IN  /\ ExactDiv(PI, planetTeeth) /\ ExactDiv(planetTeeth, ringTeeth)
        /\ ExactSub(planetPhase, half) /\ ExactMul(t1, ratio)
        /\ ExactSub(One, ratio) /\ ExactMul(meshAngle, t3)
        /\ ExactAdd(t2, t4) /\ NormalizeExact(fadd(t2, t4))

ChildPhaseExact(parentPhase, meshAngle, parentTeeth, childTeeth) ==
    LET ratio == fdiv(parentTeeth, childTeeth)
        half  == fdiv(PI, childTeeth)
        t1 == fsub(half, PI)
        t2 == fadd(One, ratio)
        t3 == fmul(meshAngle, t2)
        t4 == fsub(t1, t3)
        t5 == fmul(parentPhase, ratio)
    IN  /\ ExactDiv(parentTeeth, childTeeth) /\ ExactDiv(PI, childTeeth)
        /\ ExactSub(half, PI) /\ ExactAdd(One, ratio) /\ ExactMul(meshAngle, t2)
        /\ ExactSub(t1, t3) /\ ExactMul(parentPhase, ratio)
        /\ ExactSub(t4, t5) /\ NormalizeExact(fsub(t4, t5))

InternalMeshExact(parentPhase, meshAngle, parentTeeth, childTeeth) ==
    LET ratio == fdiv(parentTeeth, childTeeth)
        half  == fdiv(PI, childTeeth)
        t1 == fsub(ratio, One)
        t2 == fmul(meshAngle, t1)
        t3 == fadd(fneg(half), t2)
        t4 == fmul(parentPhase, ratio)
    IN  /\ ExactDiv(parentTeeth, childTeeth) /\ ExactDiv(PI, childTeeth)
        /\ ExactSub(ratio, One) /\ ExactMul(meshAngle, t1)
        /\ ExactAdd(fneg(half), t2) /\ ExactMul(parentPhase, ratio)
        /\ ExactAdd(t3, t4) /\ NormalizeExact(fadd(t3, t4))

(* a and b are congruent modulo 2 * Math.PI, exactly *)
Congruent(a, b) == IsNum(a) /\ IsNum(b) /\ (a.n - b.n) % TwoPi.n = 0

(* C3: with r = calculateRingPhaseFromPlanet(planetPhase, meshAngle,       *)
(* planetTeeth, ringTeeth), calculateInternalMeshPhase(r, meshAngle,       *)
(* ringTeeth, planetTeeth) is congruent to planetPhase modulo 2*pi.        *)
(* (Stated for the calls in which no operation rounds, so that rounding    *)
(* cannot be what separates the two values.)                               *)
C3_RingPhaseRoundTrip ==
    (/\ Done("calculateRingPhaseFromPlanet")
     /\ args[3] # Zero /\ args[4] # Zero
     /\ RingPhaseExact(args[1], args[2], args[3], args[4])
     /\ InternalMeshExact(ret, args[2], args[4], args[3])) =>
        Congruent(calculateInternalMeshPhase(ret, args[2], args[4], args[3]),
                  args[1])

-----------------------------------------------------------------------------
(* C5: calculateChildPhase and calculateInternalMeshPhase return a finite  *)
(* value in [0, 2*pi) for finite arguments, childTeeth = 1 included.       *)
(* (Stated for childTeeth # 0 and teeth counts up to MaxTeeth, where       *)
(* nothing overflows.)                                                     *)
C5_MeshPhaseInRange ==
    (/\ pc = "done" /\ fn \in {"calculateChildPhase", "calculateInternalMeshPhase"}
     /\ args[4] # Zero /\ Ordinary(args[3]) /\ Ordinary(args[4])) =>
        InRange(ret)

-----------------------------------------------------------------------------
(* one tooth pitch of a gear with t teeth: 2 * Math.PI / t *)
Pitch(t) == fdiv(TwoPi, t)

(* the mesh phase function f at a parent phase one parent tooth further *)
Advanced(f, a) == Apply(f, <<fadd(a[1], Pitch(a[3])), a[2], a[3], a[4]>>)

(* the call a of f and the same call one parent tooth further run          *)
(* without rounding, and so do the two pitches and the advance             *)
PitchExact(f, a) ==
    /\ ExactDiv(TwoPi, a[3]) /\ ExactDiv(TwoPi, a[4])
    /\ ExactAdd(a[1], Pitch(a[3]))
    /\ IF f = "calculateChildPhase"
       THEN /\ ChildPhaseExact(a[1], a[2], a[3], a[4])
            /\ ChildPhaseExact(fadd(a[1], Pitch(a[3])), a[2], a[3], a[4])
       ELSE /\ InternalMeshExact(a[1], a[2], a[3], a[4])
            /\ InternalMeshExact(fadd(a[1], Pitch(a[3])), a[2], a[3], a[4])

(* the result moved by one child tooth pitch modulo 2 * Math.PI:           *)
(* backwards for calculateChildPhase, forwards for calculateInternalMeshPhase *)
MovedOnePitch(f, a, r) ==
    LET r2 == Advanced(f, a)
        p  == Pitch(a[4])
    IN  /\ IsNum(r) /\ IsNum(r2) /\ IsNum(p)
        /\ IF f = "calculateChildPhase"
           THEN (r.n - r2.n - p.n) % TwoPi.n = 0
           ELSE (r2.n - r.n - p.n) % TwoPi.n = 0

MeshFns == {"calculateChildPhase", "calculateInternalMeshPhase"}

(* C8 as stated: for nonzero teeth counts, advancing parentPhase by        *)
(* 2*pi/parentTeeth moves the result of calculateChildPhase back, and that *)
(* of calculateInternalMeshPhase forward, by exactly 2*pi/childTeeth       *)
(* modulo 2*pi.  (Stated for teeth counts up to MaxTeeth.)                 *)
C8_ToothPitchAsStated ==
    (/\ pc = "done" /\ fn \in MeshFns
     /\ args[3] # Zero /\ args[4] # Zero
     /\ Ordinary(args[3]) /\ Ordinary(args[4])) =>
        MovedOnePitch(fn, args, ret)

(* C8 amended: the same, whenever the two tooth pitches, the advanced      *)
(* phase and both calls are computed without rounding.                     *)
C8_ToothPitchWhenExact ==
    (/\ pc = "done" /\ fn \in MeshFns
     /\ args[3] # Zero /\ args[4] # Zero
     /\ PitchExact(fn, args)) =>
        MovedOnePitch(fn, args, ret)

(* C8 witness: calculateInternalMeshPhase ran exactly for a child whose    *)
(* tooth pitch is not a half or whole turn (so that back and forth         *)
(* differ), with a nonzero parent phase and mesh angle and unequal teeth   *)
(* counts, and moved forward one pitch.                                    *)
C8_Witness ==
    /\ Done("calculateInternalMeshPhase")
    /\ args[1] # Zero /\ args[2] # Zero /\ args[3] # Zero /\ args[4] # Zero
    /\ args[3] # args[4]
    /\ PitchExact(fn, args)
    /\ (2 * Pitch(args[4]).n) % TwoPi.n # 0
    /\ MovedOnePitch(fn, args, ret)

-----------------------------------------------------------------------------
(* C7: calls are independent.  Under every interleaving of the statements  *)
(* of two calls, a call that has returned has returned the value the same  *)
(* call returns when run alone, the locals of a call that has not started  *)
(* are untouched, and the GearMath object is unchanged.                    *)
C7_CallsIndependent ==
    pc = "conc" =>
        /\ \A c \in Slots :
              /\ frames[c].pc = "done" =>
                    frames[c].ret = Apply(frames[c].fn, frames[c].args)
              /\ frames[c].pc = "start" => locals[c] = EmptyLocals
        /\ gearMath = GearMath

(* C7 witness: two different phase calls have both returned, each having   *)
(* taken a step while the other was between its statements.                *)
C7_Witness ==
    /\ pc = "conc"
    /\ \A c \in Slots :
          /\ frames[c].pc = "done" /\ frames[c].overlapped
          /\ frames[c].fn \in PhaseFns
          /\ IsNum(frames[c].ret)
    /\ frames[1].fn # frames[2].fn
    /\ frames[1].ret # frames[2].ret

=============================================================================
